---- MODULE Spec2Model ----
(***************************************************************************)
(* Model of the mutagen annotation format: the parser / serializer pair of *)
(* mutagen/parser.py and the association validator / rewriter and the      *)
(* finalise pipeline of finalise.py.                                       *)
(*                                                                         *)
(* A Python str is a sequence of one-character strings, so that the        *)
(* regular expressions, strip / split / join and int() <-> str() are       *)
(* computed character by character as the code computes them.              *)
(* An Optional[str] is a record: None or Some(s).  A node that failed to   *)
(* parse (Python None in a child list) is the record Hole.                 *)
(***************************************************************************)
EXTENDS Integers, Sequences, FiniteSets, TLC

(***************************************************************************)
(* Bounds of the model.                                                    *)
(***************************************************************************)
\* lines after the protein line of a serialised tree
MaxLines == 8
\* nodes of a Record handed to rename_associations directly
MaxNodes == 6
\* holes punched into such a Record
MaxHoles == 2
\* protein blocks of an input file of finalise
MaxRecs == 2

(***************************************************************************)
(* Characters and the str methods the code uses.                           *)
(***************************************************************************)
Digits == <<"0", "1", "2", "3", "4", "5", "6", "7", "8", "9">>
LowerAZ == <<"a", "b", "c", "d", "e", "f", "g", "h", "i", "j", "k", "l", "m",
             "n", "o", "p", "q", "r", "s", "t", "u", "v", "w", "x", "y", "z">>
UpperAZ == <<"A", "B", "C", "D", "E", "F", "G", "H", "I", "J", "K", "L", "M",
             "N", "O", "P", "Q", "R", "S", "T", "U", "V", "W", "X", "Y", "Z">>

Range(f) == {f[i] : i \in DOMAIN f}

IsDigit(c) == c \in Range(Digits)
IsUpper(c) == c \in Range(UpperAZ)
IsLower(c) == c \in Range(LowerAZ)
IsWord(c) == IsDigit(c) \/ IsUpper(c) \/ IsLower(c) \/ c = "_"
IsSpace(c) == c \in {" ", "\t", "\n"}
IsDot(c) == c # "\n"

\* number of leading / trailing TRUE of a sequence of booleans
LeadTrue(flags) ==
    IF \A i \in 1..Len(flags) : flags[i] THEN Len(flags)
    ELSE (CHOOSE i \in 1..Len(flags) :
             ~flags[i] /\ \A j \in 1..(i-1) : flags[j]) - 1
TrailTrue(flags) ==
    IF \A i \in 1..Len(flags) : flags[i] THEN Len(flags)
    ELSE Len(flags) - (CHOOSE i \in 1..Len(flags) :
                          ~flags[i] /\ \A j \in (i+1)..Len(flags) : flags[j])

\* the length of the longest prefix of s that \d* , \w* , \s* , .* match
DigitRun(s) == LeadTrue([i \in 1..Len(s) |-> IsDigit(s[i])])
WordRun(s) == LeadTrue([i \in 1..Len(s) |-> IsWord(s[i])])
SpaceRun(s) == LeadTrue([i \in 1..Len(s) |-> IsSpace(s[i])])
DotRun(s) == LeadTrue([i \in 1..Len(s) |-> IsDot(s[i])])

Drop(s, n) == SubSeq(s, n + 1, Len(s))
Take(s, n) == SubSeq(s, 1, n)

LStripChars(s, chars) ==
    Drop(s, LeadTrue([i \in 1..Len(s) |-> s[i] \in chars]))
RStripChars(s, chars) ==
    Take(s, Len(s) - TrailTrue([i \in 1..Len(s) |-> s[i] \in chars]))
StripChars(s, chars) == RStripChars(LStripChars(s, chars), chars)

\* str.strip()
Strip(s) == StripChars(s, {" ", "\t", "\n"})

\* str.upper() / str.lower()
UpperChar(c) == IF IsLower(c)
                THEN UpperAZ[CHOOSE i \in DOMAIN LowerAZ : LowerAZ[i] = c]
                ELSE c
LowerChar(c) == IF IsUpper(c)
                THEN LowerAZ[CHOOSE i \in DOMAIN UpperAZ : UpperAZ[i] = c]
                ELSE c
Upper(s) == [i \in 1..Len(s) |-> UpperChar(s[i])]
Lower(s) == [i \in 1..Len(s) |-> LowerChar(s[i])]

\* str.split(c) for a one-character separator
RECURSIVE Split(_, _)
Split(s, c) ==
    IF \A i \in 1..Len(s) : s[i] # c THEN <<s>>
    ELSE LET i == CHOOSE k \in 1..Len(s) :
                     s[k] = c /\ \A j \in 1..(k-1) : s[j] # c
         IN  <<Take(s, i - 1)>> \o Split(Drop(s, i), c)

\* c.join(parts)
RECURSIVE Join(_, _)
Join(parts, c) ==
    IF parts = <<>> THEN <<>>
    ELSE IF Len(parts) = 1 THEN parts[1]
    ELSE parts[1] \o <<c>> \o Join(Tail(parts), c)

RECURSIVE Flatten(_)
Flatten(ss) == IF ss = <<>> THEN <<>> ELSE Head(ss) \o Flatten(Tail(ss))

\* filter(bool, strings): drop the empty strings
RECURSIVE FilterNonEmpty(_)
FilterNonEmpty(ss) ==
    IF ss = <<>> THEN <<>>
    ELSE (IF Head(ss) = <<>> THEN <<>> ELSE <<Head(ss)>>)
         \o FilterNonEmpty(Tail(ss))

\* str(n) for an int
RECURSIVE NatToStr(_)
NatToStr(n) == IF n < 10 THEN <<Digits[n + 1]>>
               ELSE NatToStr(n \div 10) \o <<Digits[(n % 10) + 1]>>
IntToStr(n) == IF n < 0 THEN <<"-">> \o NatToStr(0 - n) ELSE NatToStr(n)

\* int(s) for s made of word characters: digits, with single underscores
\* allowed between digits; anything else raises ValueError
DigitVal(c) == (CHOOSE i \in DOMAIN Digits : Digits[i] = c) - 1
IntValid(s) ==
    /\ Len(s) > 0
    /\ \A i \in 1..Len(s) : IsDigit(s[i]) \/ s[i] = "_"
    /\ IsDigit(s[1]) /\ IsDigit(s[Len(s)])
    /\ \A i \in 1..(Len(s)-1) : ~(s[i] = "_" /\ s[i+1] = "_")
RECURSIVE DigitsToNat(_)
DigitsToNat(s) ==
    IF s = <<>> THEN 0
    ELSE IF s[Len(s)] = "_" THEN DigitsToNat(Take(s, Len(s) - 1))
    ELSE DigitsToNat(Take(s, Len(s) - 1)) * 10 + DigitVal(s[Len(s)])
StrToInt(s) == DigitsToNat(s)

(***************************************************************************)
(* Optional values and the node types.                                     *)
(***************************************************************************)
None == [some |-> FALSE]
Some(v) == [some |-> TRUE, val |-> v]
Hole == [kind |-> "Hole"]

Effect(cls, level, target, associations) ==
    [kind |-> "Effect", cls |-> cls, level |-> level, target |-> target,
     associations |-> associations]
SubRecord(id, description, effects) ==
    [kind |-> "SubRecord", id |-> id, description |-> description,
     effects |-> effects]
Mutation(id, start, stop, ref, alt, description, subrecs) ==
    [kind |-> "Mutation", id |-> id, start |-> start, stop |-> stop,
     ref |-> ref, alt |-> alt, description |-> description,
     subrecs |-> subrecs]
Record(protein, mutations) ==
    [kind |-> "Record", protein |-> protein, mutations |-> mutations]

CLASSES == {<<"O","R","G">>, <<"C","E","L">>, <<"P","A","T">>,
            <<"P","R","O">>, <<"I","N","T">>, <<"I","N","D">>,
            <<"E","N","Z">>, <<"M","I","M">>, <<"L","O","C">>,
            <<"T","R","A">>, <<"C","H","A">>, <<"C","A","R">>,
            <<"U","N","K">>}
PREF == {"<", "[", ">"}

(***************************************************************************)
(* The compiled patterns.  Each matcher returns [ok |-> FALSE] when        *)
(* re.match returns None, else the captured groups.                        *)
(***************************************************************************)
NoMatch == [ok |-> FALSE]

\* the text a trailing '\s+(.+)' (min = 1) or '\s*(.+)' (min = 0) captures
\* from s: the longest whitespace prefix that still leaves a character for
\* '.+', which then runs to the end of the line
TrailText(s, min) ==
    LET ws == SpaceRun(s)
        ks == {k \in min..ws : Len(s) > k /\ IsDot(s[k + 1])}
    IN  IF ks = {} THEN NoMatch
        ELSE LET k == CHOOSE k \in ks : \A j \in ks : j <= k
                 rest == Drop(s, k)
             IN  [ok |-> TRUE, text |-> Take(rest, DotRun(rest))]

\* MUTPATT =
\*  '<(?P<id>\w+)>\s*(?P<ref>\w+)\|(?P<start>\d+)-(?P<stop>\d+)\|(?P<sub>\w+)\s+(?P<text>.+)'
MUTPATT(line) ==
    IF line = <<>> \/ line[1] # "<" THEN NoMatch
    ELSE
    LET s1 == Drop(line, 1)
        nid == WordRun(s1)
        s2 == Drop(s1, nid)
    IN  IF nid = 0 \/ s2 = <<>> \/ s2[1] # ">" THEN NoMatch
        ELSE
        LET s3 == Drop(s2, 1 + SpaceRun(Drop(s2, 1)))
            nref == WordRun(s3)
            s4 == Drop(s3, nref)
        IN  IF nref = 0 \/ s4 = <<>> \/ s4[1] # "|" THEN NoMatch
            ELSE
            LET s5 == Drop(s4, 1)
                nstart == DigitRun(s5)
                s6 == Drop(s5, nstart)
            IN  IF nstart = 0 \/ s6 = <<>> \/ s6[1] # "-" THEN NoMatch
                ELSE
                LET s7 == Drop(s6, 1)
                    nstop == DigitRun(s7)
                    s8 == Drop(s7, nstop)
                IN  IF nstop = 0 \/ s8 = <<>> \/ s8[1] # "|" THEN NoMatch
                    ELSE
                    LET s9 == Drop(s8, 1)
                        nalt == WordRun(s9)
                        t == TrailText(Drop(s9, nalt), 1)
                    IN  IF nalt = 0 \/ ~t.ok THEN NoMatch
                        ELSE [ok |-> TRUE,
                              id |-> Take(s1, nid),
                              ref |-> Take(s3, nref),
                              start |-> Take(s5, nstart),
                              stop |-> Take(s7, nstop),
                              sub |-> Take(s9, nalt),
                              text |-> t.text]

\* SUBRECPATT = '\[(?P<id>\d+)\]\s*(?P<text>.+)'
SUBRECPATT(line) ==
    IF line = <<>> \/ line[1] # "[" THEN NoMatch
    ELSE
    LET s1 == Drop(line, 1)
        nid == DigitRun(s1)
        s2 == Drop(s1, nid)
    IN  IF nid = 0 \/ s2 = <<>> \/ s2[1] # "]" THEN NoMatch
        ELSE LET t == TrailText(Drop(s2, 1), 0)
             IN  IF ~t.ok THEN NoMatch
                 ELSE [ok |-> TRUE, id |-> Take(s1, nid), text |-> t.text]

\* a grouping that takes only well-formed headers for the start of a mutation
MUTPREF_whole(line) == MUTPATT(line).ok

\* MUTPREF = '^<(\d+)>'
MUTPREF(line) ==
    /\ Len(line) >= 3
    /\ line[1] = "<"
    /\ LET n == DigitRun(Drop(line, 1))
       IN  n >= 1 /\ Len(line) >= n + 2 /\ line[n + 2] = ">"

\* SUBPREF = '^\[(\d+)\]'
SUBPREF(line) ==
    /\ Len(line) >= 3
    /\ line[1] = "["
    /\ LET n == DigitRun(Drop(line, 1))
       IN  n >= 1 /\ Len(line) >= n + 2 /\ line[n + 2] = "]"

(***************************************************************************)
(* Grouping primitives.                                                    *)
(***************************************************************************)
\* separate(condition, sep, lines): sep before every line that satisfies the
\* condition; marks[i] is condition(lines[i])
separate(marks, sep, lines) ==
    Flatten([i \in 1..Len(lines) |->
                IF marks[i] THEN <<sep, lines[i]>> ELSE <<lines[i]>>])

\* breakby(op.not_, lines): groupby on "the line is empty", the groups of
\* empty lines filtered out: the maximal runs of non-empty lines, in order
breakby(lines) ==
    LET n == Len(lines)
        starts == {i \in 1..n :
                     lines[i] # <<>> /\ (i = 1 \/ lines[i-1] = <<>>)}
        nth(k) == CHOOSE i \in starts :
                     Cardinality({j \in starts : j < i}) = k - 1
        last(s) == CHOOSE e \in s..n :
                     /\ \A j \in s..e : lines[j] # <<>>
                     /\ (e = n \/ lines[e+1] = <<>>)
    IN  [k \in 1..Cardinality(starts) |-> SubSeq(lines, nth(k), last(nth(k)))]

\* cleanup: cut each line at the first '!!!' or '***'
Find3(line, c) ==
    LET hits == {i \in 1..(Len(line) - 2) :
                    line[i] = c /\ line[i+1] = c /\ line[i+2] = c}
    IN  IF hits = {} THEN 0 ELSE CHOOSE i \in hits : \A j \in hits : i <= j
cleanup(handle) ==
    [i \in 1..Len(handle) |->
        LET a == Find3(handle[i], "!")
            b == Find3(handle[i], "*")
            candidates == {a, b} \ {0}
        IN  IF candidates = {} THEN handle[i]
            ELSE Take(handle[i],
                      (CHOOSE m \in candidates :
                          \A j \in candidates : m <= j) - 1)]

(***************************************************************************)
(* parse                                                                   *)
(***************************************************************************)
\* parse_effect: ValueError (unknown class) gives a hole
\* x.strip('?') or None
OptField(x) == LET y == StripChars(x, {"?"})
               IN  IF y = <<>> THEN None ELSE Some(y)

parse_effect(line) ==
    LET fields == Split(LStripChars(line, {">", " "}), "|")
                    \o << <<>>, <<>>, <<>> >>
        cls == fields[1]
    IN  IF Upper(cls) \notin CLASSES THEN Hole
        ELSE Effect(cls, OptField(fields[2]), OptField(fields[3]),
                    FilterNonEmpty(Split(fields[4], ";")))

\* a parse_subrec that gives a hole for a header without effect lines
parse_subrec_hole_if_empty(lines) ==
    LET m == SUBRECPATT(lines[1])
    IN  IF ~m.ok THEN [raised |-> "AttributeError"]
        ELSE IF ~IntValid(m.id) \/ Len(lines) = 1
        THEN [raised |-> "None", value |-> Hole]
        ELSE [raised |-> "None",
              value |-> SubRecord(StrToInt(m.id), m.text,
                           [i \in 1..(Len(lines) - 1) |->
                               parse_effect(lines[i + 1])])]
\* parse_subrec: a first line that does not match SUBRECPATT raises
\* AttributeError, which optionable(ValueError) does not catch
parse_subrec(lines) ==
    LET m == SUBRECPATT(lines[1])
    IN  IF ~m.ok THEN [raised |-> "AttributeError"]
        ELSE IF ~IntValid(m.id) THEN [raised |-> "None", value |-> Hole]
        ELSE [raised |-> "None",
              value |-> SubRecord(StrToInt(m.id), m.text,
                           [i \in 1..(Len(lines) - 1) |->
                               parse_effect(lines[i + 1])])]

\* parse_mut: optionable(ValueError, AttributeError)
NoneOrKeep(x) == Some(x)
\* None if x.lower() == 'none' else x
NoneOr(x) == IF Lower(x) = <<"n","o","n","e">> THEN None ELSE Some(x)

parse_mut(lines) ==
    LET m == MUTPATT(lines[1])
    IN  IF ~m.ok THEN Hole
        ELSE
        LET rest == Tail(lines)
            groups == breakby(separate([i \in 1..Len(rest) |-> SUBPREF(rest[i])],
                                       <<>>, rest))
            subs == [i \in 1..Len(groups) |-> parse_subrec(groups[i])]
        IN  IF \E i \in 1..Len(subs) : subs[i].raised # "None" THEN Hole
            ELSE IF ~IntValid(m.id) THEN Hole
            ELSE Mutation(StrToInt(m.id), StrToInt(m.start), StrToInt(m.stop),
                          NoneOr(m.ref), NoneOr(m.sub), Strip(m.text),
                          [i \in 1..Len(subs) |-> subs[i].value])

parse_rec(lines) ==
    LET rest == Tail(lines)
        groups == breakby(separate([i \in 1..Len(rest) |-> MUTPREF(rest[i])],
                                   <<>>, rest))
    IN  Record(lines[1], [i \in 1..Len(groups) |-> parse_mut(groups[i])])

parse(handle) ==
    LET stripped == FilterNonEmpty([i \in 1..Len(handle) |-> Strip(handle[i])])
        groups == breakby(separate([i \in 1..Len(stripped) |->
                                       stripped[i][1] \notin PREF],
                                   <<>>, stripped))
    IN  [i \in 1..Len(groups) |-> parse_rec(groups[i])]

(***************************************************************************)
(* write                                                                   *)
(***************************************************************************)
indent(level, text) == [i \in 1..level |-> "\t"] \o text

FmtOpt_empty(o) == IF o.some THEN o.val ELSE <<>>
\* the f-string rendering of an Optional[str]: str(None) is 'None'
FmtOpt(o) == IF o.some THEN o.val ELSE <<"N","o","n","e">>
\* val or ''
OrEmpty(o) == IF o.some THEN o.val ELSE <<>>

write_eff(eff) ==
    indent(3, <<">", ">", " ">> \o
              Join(<<eff.cls, OrEmpty(eff.level), OrEmpty(eff.target),
                     Join(eff.associations, ";")>>, "|"))

write_subrec(subrec) ==
    <<indent(2, <<"[">> \o IntToStr(subrec.id) \o <<"]", " ">>
                \o subrec.description)>>
    \o [i \in 1..Len(subrec.effects) |-> write_eff(subrec.effects[i])]

write_mut(mut) ==
    LET position == FmtOpt(mut.ref) \o <<"|">> \o IntToStr(mut.start) \o <<"-">>
                    \o IntToStr(mut.stop) \o <<"|">> \o FmtOpt(mut.alt)
    IN  <<indent(1, <<"<">> \o IntToStr(mut.id) \o <<">", " ">> \o position
                    \o <<" ">> \o mut.description)>>
        \o Flatten([i \in 1..Len(mut.subrecs) |-> write_subrec(mut.subrecs[i])])

write_record(rec) ==
    <<rec.protein>>
    \o Flatten([i \in 1..Len(rec.mutations) |-> write_mut(rec.mutations[i])])

write(records) == Flatten([i \in 1..Len(records) |-> write_record(records[i])])

(***************************************************************************)
(* finalise.py: the association patterns and rename_associations.          *)
(***************************************************************************)
IsUpperOrDigit(c) == IsUpper(c) \/ IsDigit(c)
IsPhantomChar(c) == IsUpper(c) \/ IsDigit(c) \/ c = "-"
UpperOrDigitRun(s) == LeadTrue([i \in 1..Len(s) |-> IsUpperOrDigit(s[i])])
PhantomRun(s) == LeadTrue([i \in 1..Len(s) |-> IsPhantomChar(s[i])])
\* '$': the end of the string, or just before a final newline
AtEnd(s) == s = <<>> \/ s = <<"\n">>

\* ASSOC_PAT = '^[A-Z0-9]*(?::\d*){1,2}$'
ASSOC_PAT(v) ==
    LET s1 == Drop(v, UpperOrDigitRun(v))
    IN  /\ s1 # <<>>
        /\ s1[1] = ":"
        /\ LET s2 == Drop(s1, 1 + DigitRun(Drop(s1, 1)))
           IN  \/ AtEnd(s2)
               \/ /\ s2 # <<>>
                  /\ s2[1] = ":"
                  /\ AtEnd(Drop(s2, 1 + DigitRun(Drop(s2, 1))))

\* PHANTOM_ASSOC_PAT = '^[A-Z0-9]*(?::[A-Z\-\d]*\?)$'
PHANTOM_ASSOC_PAT(v) ==
    LET s1 == Drop(v, UpperOrDigitRun(v))
    IN  /\ s1 # <<>>
        /\ s1[1] = ":"
        /\ LET s2 == Drop(s1, 1 + PhantomRun(Drop(s1, 1)))
           IN  s2 # <<>> /\ s2[1] = "?" /\ AtEnd(Drop(s2, 1))

\* fnor(ASSOC_PAT.match, PHANTOM_ASSOC_PAT.match, value)
is_association(v) == ASSOC_PAT(v) \/ PHANTOM_ASSOC_PAT(v)

mapping_ok_any(mapping) ==
    \E k \in DOMAIN mapping : is_association(mapping[k])
\* (F(map, is_association) >> all)(mapping.values())
mapping_ok(mapping) ==
    \A k \in DOMAIN mapping : is_association(mapping[k])

Ok(v) == [ok |-> TRUE, value |-> v]
Raise(e) == [ok |-> FALSE, error |-> e]

\* the first result that raised, in list order
FirstRaised(rs) ==
    rs[CHOOSE i \in 1..Len(rs) : ~rs[i].ok /\ \A j \in 1..(i-1) : rs[j].ok]

AllPresent_holes_only(children) ==
    \A i \in 1..Len(children) : children[i] # Hole
\* children and all(children)
AllPresent(children) ==
    children # <<>> /\ \A i \in 1..Len(children) : children[i] # Hole

rename_assoc_passthrough(mapping, protein, effect) ==
    Ok(Effect(effect.cls, effect.level, effect.target,
              [k \in 1..Len(effect.associations) |->
                  IF effect.associations[k] \in DOMAIN mapping
                  THEN mapping[effect.associations[k]]
                  ELSE effect.associations[k]]))
rename_assoc_first_only(mapping, protein, effect) ==
    LET assocs == effect.associations
        missing == {k \in 1..Len(assocs) : assocs[k] \notin DOMAIN mapping}
    IN  IF missing # {}
        THEN Raise([exc |-> "ValueError",
                    msg |-> "non-exhaustive association mapping",
                    protein |-> protein,
                    key |-> assocs[CHOOSE k \in missing :
                                      \A j \in missing : k <= j]])
        ELSE Ok(Effect(effect.cls, effect.level, effect.target,
                       [k \in 1..Len(assocs) |-> mapping[assocs[1]]]))
rename_assoc(mapping, protein, effect) ==
    LET assocs == effect.associations
        missing == {k \in 1..Len(assocs) : assocs[k] \notin DOMAIN mapping}
    IN  IF missing # {}
        THEN Raise([exc |-> "ValueError",
                    msg |-> "non-exhaustive association mapping",
                    protein |-> protein,
                    key |-> assocs[CHOOSE k \in missing :
                                      \A j \in missing : k <= j]])
        ELSE Ok(Effect(effect.cls, effect.level, effect.target,
                       [k \in 1..Len(assocs) |-> mapping[assocs[k]]]))

check_subrec(mapping, protein, mutid, subrec) ==
    IF ~AllPresent(subrec.effects)
    THEN Raise([exc |-> "ValueError", msg |-> "malformed effect(s)",
                protein |-> protein, mutid |-> mutid, subid |-> subrec.id])
    ELSE LET rs == [k \in 1..Len(subrec.effects) |->
                       rename_assoc(mapping, protein, subrec.effects[k])]
         IN  IF \E k \in 1..Len(rs) : ~rs[k].ok THEN FirstRaised(rs)
             ELSE Ok(SubRecord(subrec.id, subrec.description,
                               [k \in 1..Len(rs) |-> rs[k].value]))

check_mut(mapping, protein, mut) ==
    IF ~AllPresent(mut.subrecs)
    THEN Raise([exc |-> "ValueError", msg |-> "malformed subrecord(s)",
                protein |-> protein, mutid |-> mut.id])
    ELSE LET rs == [j \in 1..Len(mut.subrecs) |->
                       check_subrec(mapping, protein, mut.id, mut.subrecs[j])]
         IN  IF \E j \in 1..Len(rs) : ~rs[j].ok THEN FirstRaised(rs)
             ELSE Ok(Mutation(mut.id, mut.start, mut.stop, mut.ref, mut.alt,
                              mut.description,
                              [j \in 1..Len(rs) |-> rs[j].value]))

check_record(mapping, record) ==
    IF ~AllPresent(record.mutations)
    THEN Raise([exc |-> "ValueError", msg |-> "malformed mutations",
                protein |-> record.protein])
    ELSE LET rs == [i \in 1..Len(record.mutations) |->
                       check_mut(mapping, record.protein, record.mutations[i])]
         IN  IF \E i \in 1..Len(rs) : ~rs[i].ok THEN FirstRaised(rs)
             ELSE Ok(Record(record.protein,
                            [i \in 1..Len(rs) |-> rs[i].value]))

rename_associations_structure_first(mapping, record) ==
    LET r == check_record(mapping, record)
    IN  IF ~r.ok THEN r
        ELSE IF ~mapping_ok(mapping)
        THEN Raise([exc |-> "ValueError",
                    msg |-> "malformed association mapping",
                    protein |-> record.protein])
        ELSE r
rename_associations(mapping, record) ==
    IF ~mapping_ok(mapping)
    THEN Raise([exc |-> "ValueError", msg |-> "malformed association mapping",
                protein |-> record.protein])
    ELSE check_record(mapping, record)

\* mappings.get(rec.protein, {})
GetMapping(mappings, protein) ==
    IF protein \in DOMAIN mappings THEN mappings[protein] ELSE <<>>
(***************************************************************************)
(* Inputs.  A tree is drawn by its shape, the sequence of the kinds of the *)
(* lines it serialises to after the protein line: "M" a mutation header,   *)
(* "S" a sub-record header, "E" an effect line.  The fields of its nodes   *)
(* come from small pools, rotated by a variant number; the nodes at the    *)
(* lines in holes are holes.                                               *)
(***************************************************************************)
Kinds == {"M", "S", "E"}
SeqsUpTo(S, n) == UNION {[1..k -> S] : k \in 0..n}

\* a shape whose lines nest: it starts with a mutation, and an effect only
\* follows a sub-record header or another effect
IsShape(sh) ==
    /\ sh # <<>> => sh[1] = "M"
    /\ \A i \in 2..Len(sh) : sh[i] = "E" => sh[i-1] \in {"S", "E"}
\* a shape in which every node has at least one child
IsFullShape(sh) ==
    /\ IsShape(sh)
    /\ sh # <<>>
    /\ sh[Len(sh)] = "E"
    /\ \A i \in 1..(Len(sh)-1) :
          /\ sh[i] = "M" => sh[i+1] = "S"
          /\ sh[i] = "S" => sh[i+1] = "E"
Shapes(n) == {sh \in SeqsUpTo(Kinds, n) : IsShape(sh)}
FullShapes(n) == {sh \in SeqsUpTo(Kinds, n) : IsFullShape(sh)}

SortedSeq(S) ==
    [k \in 1..Cardinality(S) |->
        CHOOSE i \in S : Cardinality({j \in S : j < i}) = k - 1]

Protein == <<"P", "1">>
Protein2 == <<"Q", "9">>
AssocX == <<"X", ":", "1">>
AssocY == <<"Y", ":", "2">>
AssocZ == <<"Z", "9", ":", "A", "-", "1", "?">>
AssocW == <<"W", ":", "7">>

EffPool ==
    << Effect(<<"O","R","G">>, Some(<<"+">>), Some(<<"l","i","v">>),
              <<AssocX, AssocY>>),
       Effect(<<"c","e","l">>, None, Some(<<"a"," ","b">>), <<AssocZ>>),
       Effect(<<"U","N","K">>, Some(<<"-","-">>), None, <<>>),
       Effect(<<"P","A","T">>, None, None, <<AssocY, AssocY>>) >>

\* id, start, stop, ref, alt, description of the mutations
MutPool ==
    << [id |-> 1, start |-> 10, stop |-> 13, ref |-> Some(<<"A">>),
        alt |-> Some(<<"T">>), description |-> <<"d"," ","o","n","e">>],
       [id |-> 20, start |-> 7, stop |-> 105, ref |-> None,
        alt |-> Some(<<"G","l","y">>), description |-> <<"x">>],
       [id |-> 3, start |-> 0, stop |-> 0, ref |-> Some(<<"n","o">>),
        alt |-> None, description |-> <<"[","2","]"," ","y">>],
       [id |-> 4, start |-> 99, stop |-> 100, ref |-> None,
        alt |-> None, description |-> <<">",">"," ","O","R","G">>] >>

SubDescPool == << <<"s","u","b">>, <<"<","1",">"," ","t","|","1">> >>

Rot(pool, n) == pool[(n % Len(pool)) + 1]

TreeOf(sh, v, protein, holes) ==
    LET n == Len(sh)
        ms == SortedSeq({i \in 1..n : sh[i] = "M"})
        mEnd(i) == IF i < Len(ms) THEN ms[i+1] - 1 ELSE n
        mut(i) ==
            LET ss == SortedSeq({p \in ms[i]..mEnd(i) : sh[p] = "S"})
                sEnd(j) == IF j < Len(ss) THEN ss[j+1] - 1 ELSE mEnd(i)
                sub(j) ==
                    IF ss[j] \in holes THEN Hole
                    ELSE SubRecord(j + v, Rot(SubDescPool, j + v),
                            [k \in 1..(sEnd(j) - ss[j]) |->
                                IF ss[j] + k \in holes THEN Hole
                                ELSE Rot(EffPool, ss[j] + k + v)])
                f == Rot(MutPool, i + v)
            IN  IF ms[i] \in holes THEN Hole
                ELSE Mutation(f.id, f.start, f.stop, f.ref, f.alt,
                              f.description, [j \in 1..Len(ss) |-> sub(j)])
    IN  Record(protein, [i \in 1..Len(ms) |-> mut(i)])

Variants == 0..(Len(MutPool) - 1)

\* a Record is complete: no hole and no empty child sequence at any level
NoHoleNonEmpty(children) ==
    Len(children) >= 1 /\ \A i \in 1..Len(children) : children[i].kind # "Hole"
Complete(rec) ==
    /\ NoHoleNonEmpty(rec.mutations)
    /\ \A i \in 1..Len(rec.mutations) :
          /\ NoHoleNonEmpty(rec.mutations[i].subrecs)
          /\ \A j \in 1..Len(rec.mutations[i].subrecs) :
                NoHoleNonEmpty(rec.mutations[i].subrecs[j].effects)

\* some node of the (hole-free) Record has no child
HasEmptyNode(rec) ==
    \/ rec.mutations = <<>>
    \/ \E i \in 1..Len(rec.mutations) :
          \/ rec.mutations[i].subrecs = <<>>
          \/ \E j \in 1..Len(rec.mutations[i].subrecs) :
                rec.mutations[i].subrecs[j].effects = <<>>

(***************************************************************************)
(* State.                                                                  *)
(***************************************************************************)
VARIABLES
    pc,         \* where the run is
    tree,       \* the Records a run starts from
    handle,     \* the lines of the text
    corrupt,    \* the line of the text that was replaced, if any
    records,    \* what parse returned
    mappings,   \* protein -> (association -> association)
    result,     \* what rename_associations returned or raised
    finalised,  \* finalised_records
    output      \* the lines printed to the output file

vars == <<pc, tree, handle, corrupt, records, mappings, result, finalised,
          output>>

NoCorrupt == [level |-> "none"]
NoResult == [ok |-> FALSE, error |-> [exc |-> "none"]]

(***************************************************************************)
(* write, then parse.                                                      *)
(***************************************************************************)
InitRT ==
    /\ pc = "start"
    /\ \E sh \in Shapes(MaxLines), v \in Variants :
          tree = <<TreeOf(sh, v, Protein, {})>>
    /\ handle = <<>>
    /\ corrupt = NoCorrupt
    /\ records = <<>>
    /\ mappings = <<>>
    /\ result = NoResult
    /\ finalised = <<>>
    /\ output = <<>>

Write ==
    /\ pc = "start"
    /\ handle' = write(tree)
    /\ pc' = "written"
    /\ UNCHANGED <<tree, corrupt, records, mappings, result, finalised, output>>

Parse ==
    /\ pc \in {"written", "corrupted"}
    /\ records' = parse(handle)
    /\ pc' = "parsed"
    /\ UNCHANGED <<tree, handle, corrupt, mappings, result, finalised, output>>

NextRT == Write \/ Parse
SpecRT == InitRT /\ [][NextRT]_vars

\* the line of the text that write emits for the header of mutation i of
\* tree[1], and for the header of its sub-record j
HeaderLine(i) ==
    Len(write_record(Record(tree[1].protein, Take(tree[1].mutations, i - 1))))
    + 1
SubHeaderLine(i, j) ==
    HeaderLine(i)
    + Len(write_mut([tree[1].mutations[i] EXCEPT !.subrecs = Take(@, j - 1)]))
\* the text between '<id> ' and the first '|' of a mutation header
RefSegment(line) ==
    LET s == Strip(line)
        body == Drop(s, LeadTrue([i \in 1..Len(s) |-> s[i] # ">"]) + 2)
    IN  Split(body, "|")[1]
\* the text between the second '|' and the following blank
AltSegment(line) ==
    LET f == Split(Strip(line), "|")[3]
    IN  Take(f, LeadTrue([i \in 1..Len(f) |-> f[i] # " "]))
NoneWord == <<"N", "o", "n", "e">>

\* C1: parsing the serialisation of a complete tree (no hole, no empty child
\* sequence; absent ref/alt/level/target and empty association lists
\* included) returns exactly that tree.
RoundTrip ==
    (pc = "parsed" /\ Complete(tree[1])) => records = tree
RoundTripWitness ==
    /\ pc = "parsed"
    /\ Complete(tree[1])
    /\ records = tree
    /\ Len(tree[1].mutations) >= 2
    /\ \E i \in 1..Len(tree[1].mutations) :
          /\ ~tree[1].mutations[i].ref.some
          /\ ~tree[1].mutations[i].alt.some
          /\ \E j \in 1..Len(tree[1].mutations[i].subrecs) :
                \E k \in 1..Len(tree[1].mutations[i].subrecs[j].effects) :
                   LET e == tree[1].mutations[i].subrecs[j].effects[k]
                   IN  ~e.level.some /\ e.associations # <<>>
    /\ \E i \in 1..Len(tree[1].mutations) :
          \E j \in 1..Len(tree[1].mutations[i].subrecs) :
             \E k \in 1..Len(tree[1].mutations[i].subrecs[j].effects) :
                LET e == tree[1].mutations[i].subrecs[j].effects[k]
                IN  ~e.target.some /\ e.associations = <<>>

\* C6 as stated: the header written for a mutation whose ref (alt) is absent
\* has the empty string in the ref (alt) position.
AbsentAlleleWrittenEmpty ==
    pc = "written" =>
        \A i \in 1..Len(tree[1].mutations) :
            /\ ~tree[1].mutations[i].ref.some =>
                  RefSegment(handle[HeaderLine(i)]) = <<>>
            /\ ~tree[1].mutations[i].alt.some =>
                  AltSegment(handle[HeaderLine(i)]) = <<>>
\* C6 amended: the header written for a mutation whose ref (alt) is absent
\* has the word None in the ref (alt) position, and a present ref (alt) is
\* written as it is.
AbsentAlleleWrittenNone ==
    pc = "written" =>
        \A i \in 1..Len(tree[1].mutations) :
            LET m == tree[1].mutations[i]
            IN  /\ RefSegment(handle[HeaderLine(i)]) =
                      (IF m.ref.some THEN m.ref.val ELSE NoneWord)
                /\ AltSegment(handle[HeaderLine(i)]) =
                      (IF m.alt.some THEN m.alt.val ELSE NoneWord)
AbsentAlleleWitness ==
    /\ pc = "written"
    /\ \E i \in 1..Len(tree[1].mutations) :
          /\ ~tree[1].mutations[i].ref.some
          /\ RefSegment(handle[HeaderLine(i)]) = NoneWord
    /\ \E i \in 1..Len(tree[1].mutations) :
          /\ ~tree[1].mutations[i].alt.some
          /\ tree[1].mutations[i].ref.some
          /\ AltSegment(handle[HeaderLine(i)]) = NoneWord

EmptyNodeIn(rec) ==
    \/ rec.mutations = <<>>
    \/ \E i \in 1..Len(rec.mutations) :
          /\ rec.mutations[i] # Hole
          /\ \/ rec.mutations[i].subrecs = <<>>
             \/ \E j \in 1..Len(rec.mutations[i].subrecs) :
                   /\ rec.mutations[i].subrecs[j] # Hole
                   /\ rec.mutations[i].subrecs[j].effects = <<>>

\* C10 as stated: parse never returns a Record with no mutation, a Mutation
\* with no sub-record or a SubRecord with no effect.
NoEmptyParsedNode ==
    pc = "parsed" => \A r \in 1..Len(records) : ~EmptyNodeIn(records[r])
\* C10 amended: a protein line followed by no mutation line parses to a
\* Record with an empty mutation sequence, a mutation header followed by no
\* sub-record line to a Mutation with an empty sub-record sequence, a
\* sub-record header followed by no effect line to a SubRecord with an empty
\* effect sequence: the node is returned with zero children, not a hole.
EmptyNodeParsed ==
    (pc = "parsed" /\ corrupt = NoCorrupt /\ HasEmptyNode(tree[1])) =>
        /\ records = tree
        /\ EmptyNodeIn(records[1])
EmptyNodeWitness ==
    /\ pc = "parsed"
    /\ corrupt = NoCorrupt
    /\ records = tree
    /\ Len(records[1].mutations) = 2
    /\ records[1].mutations[1].subrecs = <<>>
    /\ Len(records[1].mutations[2].subrecs) = 2
    /\ records[1].mutations[2].subrecs[1].effects = <<>>
    /\ records[1].mutations[2].subrecs[2].effects # <<>>
(***************************************************************************)
(* write, replace one header line of the text, then parse.                 *)
(***************************************************************************)
\* lines put in the place of a mutation header.  prefixed: the line still
\* starts with '<digits>'; matches: the line matches MUTPATT; inblock: the
\* line is blank or starts with one of '<', '[', '>'
BadMutLines ==
    { [line |-> <<"<","2",">"," ","A","|","x","-","1","3","|","T"," ","d">>,
       prefixed |-> TRUE, matches |-> FALSE, inblock |-> TRUE],
      [line |-> <<"<","5",">">>,
       prefixed |-> TRUE, matches |-> FALSE, inblock |-> TRUE],
      [line |-> <<"<","x",">"," ","A","|","1","-","2","|","T"," ","d">>,
       prefixed |-> FALSE, matches |-> TRUE, inblock |-> TRUE],
      [line |-> <<"<","x",">"," ","b","a","d">>,
       prefixed |-> FALSE, matches |-> FALSE, inblock |-> TRUE],
      [line |-> <<" ">>,
       prefixed |-> FALSE, matches |-> FALSE, inblock |-> TRUE],
      [line |-> <<"b","a","d">>,
       prefixed |-> FALSE, matches |-> FALSE, inblock |-> FALSE] }

\* lines put in the place of a sub-record header.  prefixed: the line still
\* starts with '[digits]'; matches: the line matches SUBRECPATT
BadSubLines ==
    { [line |-> <<"[","1","]">>, prefixed |-> TRUE, matches |-> FALSE],
      [line |-> <<">",">"," ","P","A","T","|","|","|">>,
       prefixed |-> FALSE, matches |-> FALSE],
      [line |-> <<"[","x","]"," ","s","u","b">>,
       prefixed |-> FALSE, matches |-> FALSE] }

ReplaceLine(lines, p, line) == [lines EXCEPT ![p] = line]

InitCorrupt ==
    /\ pc = "start"
    /\ \E sh \in FullShapes(MaxLines), v \in Variants :
          tree = <<TreeOf(sh, v, Protein, {})>>
    /\ handle = <<>>
    /\ corrupt = NoCorrupt
    /\ records = <<>>
    /\ mappings = <<>>
    /\ result = NoResult
    /\ finalised = <<>>
    /\ output = <<>>

CorruptMut ==
    /\ pc = "written"
    /\ \E i \in 1..Len(tree[1].mutations), bad \in BadMutLines :
          /\ handle' = ReplaceLine(handle, HeaderLine(i), indent(1, bad.line))
          /\ corrupt' = [level |-> "mut", i |-> i, bad |-> bad]
    /\ pc' = "corrupted"
    /\ UNCHANGED <<tree, records, mappings, result, finalised, output>>

CorruptSub ==
    /\ pc = "written"
    /\ \E i \in 1..Len(tree[1].mutations), bad \in BadSubLines :
          \E j \in 1..Len(tree[1].mutations[i].subrecs) :
             /\ handle' = ReplaceLine(handle, SubHeaderLine(i, j),
                                      indent(2, bad.line))
             /\ corrupt' = [level |-> "sub", i |-> i, j |-> j, bad |-> bad]
    /\ pc' = "corrupted"
    /\ UNCHANGED <<tree, records, mappings, result, finalised, output>>

NextCorrupt == Write \/ CorruptMut \/ CorruptSub \/ Parse
SpecCorrupt == InitCorrupt /\ [][NextCorrupt]_vars

\* the mutations parse returns for the text as written, with a hole at i
MutationsWithHoleAt(i) ==
    LET whole == parse(write(tree))[1].mutations
    IN  [k \in 1..Len(whole) |-> IF k = i THEN Hole ELSE whole[k]]

\* C7 as stated: whatever non-matching line replaces the header of one
\* mutation, parse returns one Record for the protein with a hole at that
\* mutation's position and every other mutation as in the unchanged block.
HoleIsolationAnyLine ==
    (pc = "parsed" /\ corrupt.level = "mut" /\ ~corrupt.bad.matches) =>
        records = <<Record(tree[1].protein, MutationsWithHoleAt(corrupt.i))>>
\* C7 amended: when the header of one mutation is replaced by a
\* non-matching line that still starts with '<digits>' (or, for the first
\* mutation of the block, by a blank line or a non-matching line that
\* starts with '<', '[' or '>'), parse returns one Record for the protein
\* with a hole at that mutation's position and every other mutation as in
\* the unchanged block.
HoleIsolationPrefixed ==
    (/\ pc = "parsed"
     /\ corrupt.level = "mut"
     /\ ~corrupt.bad.matches
     /\ (corrupt.bad.prefixed \/ (corrupt.i = 1 /\ corrupt.bad.inblock))) =>
        records = <<Record(tree[1].protein, MutationsWithHoleAt(corrupt.i))>>
HoleIsolationWitness ==
    /\ pc = "parsed"
    /\ corrupt.level = "mut"
    /\ corrupt.bad.prefixed
    /\ ~corrupt.bad.matches
    /\ corrupt.i = 2
    /\ Len(tree[1].mutations) = 2
    /\ records[1].mutations[2] = Hole
    /\ records[1].mutations[1] = tree[1].mutations[1]

\* the first line of the group of sub-record j does not match SUBRECPATT:
\* the replaced header still opens a group
SubGroupMismatch ==
    /\ corrupt.level = "sub"
    /\ ~corrupt.bad.matches
    /\ (corrupt.bad.prefixed \/ corrupt.j = 1)

\* C9 as stated: when the first line of a sub-record group does not match
\* the sub-record pattern, the hole is at that sub-record's position only:
\* the Mutation is returned with its header fields and its other
\* sub-records.
SubHoleIsolation ==
    (pc = "parsed" /\ SubGroupMismatch) =>
        records = <<[tree[1] EXCEPT
                       !.mutations[corrupt.i].subrecs[corrupt.j] = Hole]>>
(***************************************************************************)
(* rename_associations on a Record and a mapping.                          *)
(***************************************************************************)
\* values that match ASSOC_PAT or PHANTOM_ASSOC_PAT
GoodValues ==
    { <<"X",":","1","0","0">>, <<"Y",":","2",":","3">>,
      <<"Z","9",":","B","-","2","?">>, <<":">>, <<"X",":","1","\n">>,
      <<":","?">> }
\* values that match neither
BadValues ==
    { <<"b","a","d"," ","v","a","l","u","e">>, <<"x",":","1">>, <<>>,
      <<"X",":","1",":","2",":","3">>, <<"X">>, <<"X",":","1"," ">>,
      <<"X",":","1",":","?">>, <<"X",":","a","?">> }

MapFull ==
    (AssocX :> <<"X",":","1","0","0">>) @@ (AssocY :> <<"Y",":","2",":","3">>)
    @@ (AssocZ :> <<"Z","9",":","B","-","2","?">>)
MapOdd ==
    (AssocX :> <<":">>) @@ (AssocY :> <<"X",":","1","\n">>)
    @@ (AssocZ :> <<":","?">>) @@ (AssocW :> <<":","?">>)
MapNoY ==
    (AssocX :> <<"X",":","1","0","0">>)
    @@ (AssocZ :> <<"Z","9",":","B","-","2","?">>)
MappingPool ==
    { MapFull, MapOdd, MapNoY, <<>>,
      [MapFull EXCEPT ![AssocY] = <<"b","a","d"," ","v","a","l","u","e">>],
      (AssocW :> <<"x",":","1">>),
      MapFull @@ (AssocW :> <<"X",":","1",":","2",":","3">>),
      MapNoY @@ (AssocW :> <<>>) }
    \cup {MapFull @@ (AssocW :> b) : b \in BadValues}

HoleSets(n) == {h \in SUBSET (1..n) : Cardinality(h) <= MaxHoles}

InitRename ==
    /\ pc = "start"
    /\ \E sh \in Shapes(MaxNodes), v \in DOMAIN SubDescPool :
          \E holes \in HoleSets(Len(sh)) :
             tree = <<TreeOf(sh, v, Protein, holes)>>
    /\ \E m \in MappingPool :
          mappings \in {Protein :> m, Protein2 :> m}
    /\ handle = <<>>
    /\ corrupt = NoCorrupt
    /\ records = <<>>
    /\ result = NoResult
    /\ finalised = <<>>
    /\ output = <<>>

\* rename_associations(mappings.get(rec.protein, {}), rec)
Rename ==
    /\ pc = "start"
    /\ result' = rename_associations(GetMapping(mappings, tree[1].protein),
                                     tree[1])
    /\ pc' = "done"
    /\ UNCHANGED <<tree, handle, corrupt, records, mappings, finalised, output>>

NextRename == Rename
SpecRename == InitRename /\ [][NextRename]_vars

\* the mapping that the Record of protein p is renamed with
MappingOf(p) == IF p \in DOMAIN mappings THEN mappings[p] ELSE <<>>
ValuesGood(m) == \A k \in DOMAIN m : m[k] \in GoodValues
SomeValueBad(m) == \E k \in DOMAIN m : m[k] \in BadValues
\* the association references of a complete Record
AssocsOf(rec) ==
    UNION { UNION { UNION { Range(rec.mutations[i].subrecs[j].effects[k]
                                     .associations) :
                k \in 1..Len(rec.mutations[i].subrecs[j].effects) } :
            j \in 1..Len(rec.mutations[i].subrecs) } :
        i \in 1..Len(rec.mutations) }
Unmapped(rec, m) == {a \in AssocsOf(rec) : a \notin DOMAIN m}

\* C2: with a mapping whose values are all well-formed, rename_associations
\* raises and returns no Record whenever the Record has a hole at any depth
\* or an empty child sequence.
ValidationTotal ==
    (/\ pc = "done"
     /\ ValuesGood(MappingOf(tree[1].protein))
     /\ ~Complete(tree[1])) =>
        (~result.ok /\ result.error.exc = "ValueError")
ValidationTotalWitness ==
    /\ pc = "done"
    /\ MappingOf(tree[1].protein) = MapFull
    /\ ~result.ok
    /\ Len(tree[1].mutations) = 2
    /\ tree[1].mutations[1] # Hole
    /\ tree[1].mutations[2] # Hole
    /\ \E j \in 1..Len(tree[1].mutations[2].subrecs) :
          /\ tree[1].mutations[2].subrecs[j] # Hole
          /\ \E k \in 2..Len(tree[1].mutations[2].subrecs[j].effects) :
                /\ tree[1].mutations[2].subrecs[j].effects[k] = Hole
                /\ tree[1].mutations[2].subrecs[j].effects[1] # Hole

\* C3: for a complete Record and a well-formed mapping, an association
\* reference that is not a key of the mapping makes rename_associations
\* raise the non-exhaustive error naming a missing key; no Record is
\* returned.
MappingExhaustive ==
    (/\ pc = "done"
     /\ Complete(tree[1])
     /\ ValuesGood(MappingOf(tree[1].protein))
     /\ Unmapped(tree[1], MappingOf(tree[1].protein)) # {}) =>
        /\ ~result.ok
        /\ result.error.msg = "non-exhaustive association mapping"
        /\ result.error.protein = tree[1].protein
        /\ result.error.key \in Unmapped(tree[1], MappingOf(tree[1].protein))
MappingExhaustiveWitness ==
    /\ pc = "done"
    /\ Complete(tree[1])
    /\ MappingOf(tree[1].protein) = MapNoY
    /\ AssocX \in AssocsOf(tree[1])
    /\ ~result.ok
    /\ result.error.key = AssocY

\* out is rec with every association replaced by its mapped value
Rewritten(rec, m, out) ==
    /\ out.kind = "Record"
    /\ out.protein = rec.protein
    /\ Len(out.mutations) = Len(rec.mutations)
    /\ \A i \in 1..Len(rec.mutations) :
          LET a == rec.mutations[i]
              b == out.mutations[i]
          IN  /\ b.kind = "Mutation"
              /\ <<b.id, b.start, b.stop, b.ref, b.alt, b.description>>
                 = <<a.id, a.start, a.stop, a.ref, a.alt, a.description>>
              /\ Len(b.subrecs) = Len(a.subrecs)
              /\ \A j \in 1..Len(a.subrecs) :
                    LET c == a.subrecs[j]
                        d == b.subrecs[j]
                    IN  /\ d.kind = "SubRecord"
                        /\ d.id = c.id
                        /\ d.description = c.description
                        /\ Len(d.effects) = Len(c.effects)
                        /\ \A k \in 1..Len(c.effects) :
                              LET e == c.effects[k]
                                  f == d.effects[k]
                              IN  /\ f.kind = "Effect"
                                  /\ f.cls = e.cls
                                  /\ f.level = e.level
                                  /\ f.target = e.target
                                  /\ Len(f.associations) = Len(e.associations)
                                  /\ \A l \in 1..Len(e.associations) :
                                        f.associations[l] = m[e.associations[l]]

\* C4: when rename_associations succeeds, the returned Record has the
\* protein, the shape and every field of the input, each association
\* replaced in place by its mapped value, and the input Record is unchanged.
RewritePreserves ==
    [][(pc = "start" /\ pc' = "done" /\ result'.ok) =>
          /\ tree' = tree
          /\ Rewritten(tree[1], MappingOf(tree[1].protein), result'.value)]_vars
RewriteWitness ==
    /\ pc = "done"
    /\ result.ok
    /\ Len(result.value.mutations) = 2
    /\ result.value # tree[1]
    /\ \E i \in 1..2 : \E j \in 1..Len(tree[1].mutations[i].subrecs) :
          \E k \in 1..Len(tree[1].mutations[i].subrecs[j].effects) :
             /\ tree[1].mutations[i].subrecs[j].effects[k].associations
                = <<AssocX, AssocY>>
             /\ result.value.mutations[i].subrecs[j].effects[k].associations
                = <<MapFull[AssocX], MapFull[AssocY]>>

\* C5: a mapping with a value that matches neither association pattern
\* makes rename_associations raise the malformed-mapping error for every
\* Record: whether or not the value's key is referenced, and also when the
\* Record has holes, no association or unmapped references.
MappingRejectedFirst ==
    (pc = "done" /\ SomeValueBad(MappingOf(tree[1].protein))) =>
        /\ ~result.ok
        /\ result.error.msg = "malformed association mapping"
        /\ result.error.protein = tree[1].protein
MappingRejectedWitness ==
    /\ pc = "done"
    /\ MappingOf(tree[1].protein) = (AssocW :> <<"x",":","1">>)
    /\ ~Complete(tree[1])
    /\ tree[1].mutations # <<>>
    /\ ~result.ok
    /\ result.error.msg = "malformed association mapping"
(***************************************************************************)
(* finalise: parse the cleaned input, rename every Record with the mapping *)
(* of its protein, then print the lines of the finalised Records.          *)
(***************************************************************************)
BadEffectLine == <<">",">"," ","X","X","X","|","+","|","t","|","X",":","1">>
BadHeaderLine == <<"<","2",">"," ","A","|","x","-","1","3","|","T"," ","d">>

\* the text of one protein block of the input file
BlockKinds ==
    { [shape |-> <<"M","S","E","E">>, v |-> 0, edit |-> "none"],
      [shape |-> <<"M","S","E","E">>, v |-> 0, edit |-> "comment"],
      [shape |-> <<"M","S","E">>, v |-> 2, edit |-> "none"],
      [shape |-> <<>>, v |-> 0, edit |-> "none"],
      [shape |-> <<"M","S","E","E">>, v |-> 0, edit |-> "badeffect"],
      [shape |-> <<"M","S","E","M","S","E">>, v |-> 1, edit |-> "badheader"] }
Block(protein, b) ==
    LET text == write(<<TreeOf(b.shape, b.v, protein, {})>>)
    IN  CASE b.edit = "none" -> text
          [] b.edit = "comment" ->
               [i \in 1..Len(text) |->
                   IF i % 2 = 1 THEN text[i] \o <<" ","!","!","!","c","*","*","*">>
                   ELSE text[i] \o <<"*","*","*"," ","!","!","!">>]
          [] b.edit = "badeffect" ->
               ReplaceLine(text, Len(text), indent(3, BadEffectLine))
          [] b.edit = "badheader" ->
               ReplaceLine(text, 2, indent(1, BadHeaderLine))
Blocks == {Block(p, b) : p \in {Protein, Protein2}, b \in BlockKinds}

MappingsPool ==
    { (Protein :> MapFull) @@ (Protein2 :> MapOdd),
      (Protein :> MapFull),
      (Protein :> MapNoY) @@ (Protein2 :> MapFull),
      (Protein :> [MapFull EXCEPT ![AssocY] = <<"x",":","1">>])
         @@ (Protein2 :> MapFull),
      (Protein :> MapFull) @@ (Protein2 :> (MapFull @@ (AssocW :> <<"X">>))) }

Init ==
    /\ pc = "start"
    /\ \E blocks \in SeqsUpTo(Blocks, MaxRecs) : handle = Flatten(blocks)
    /\ mappings \in MappingsPool
    /\ tree = <<>>
    /\ corrupt = NoCorrupt
    /\ records = <<>>
    /\ result = NoResult
    /\ finalised = <<>>
    /\ output = <<>>

\* records = parser.parse(parser.cleanup(buffer))
ParseInput ==
    /\ pc = "start"
    /\ records' = parse(cleanup(handle))
    /\ pc' = "rename"
    /\ UNCHANGED <<tree, handle, corrupt, mappings, result, finalised, output>>

\* one step of the list comprehension: the next Record is renamed and kept
RenameRecord ==
    /\ pc = "rename"
    /\ Len(finalised) < Len(records)
    /\ LET rec == records[Len(finalised) + 1]
           r == rename_associations(GetMapping(mappings, rec.protein), rec)
       IN  /\ r.ok
           /\ finalised' = Append(finalised, r.value)
    /\ UNCHANGED <<pc, tree, handle, corrupt, records, mappings, result, output>>

\* ... or rename_associations raises and finalise ends with the error
RenameRaises ==
    /\ pc = "rename"
    /\ Len(finalised) < Len(records)
    /\ LET rec == records[Len(finalised) + 1]
           r == rename_associations(GetMapping(mappings, rec.protein), rec)
       IN  /\ ~r.ok
           /\ result' = r
    /\ pc' = "raised"
    /\ UNCHANGED <<tree, handle, corrupt, records, mappings, finalised, output>>

\* with open(output, 'w') as dest
OpenOutput ==
    /\ pc = "rename"
    /\ Len(finalised) = Len(records)
    /\ pc' = "write"
    /\ UNCHANGED <<tree, handle, corrupt, records, mappings, result, finalised,
                   output>>

\* print(line, file=dest) for the next line of parser.write(finalised_records)
PrintLine ==
    /\ pc = "write"
    /\ Len(output) < Len(write(finalised))
    /\ output' = Append(output, write(finalised)[Len(output) + 1])
    /\ UNCHANGED <<pc, tree, handle, corrupt, records, mappings, result,
                   finalised>>

CloseOutput ==
    /\ pc = "write"
    /\ Len(output) = Len(write(finalised))
    /\ pc' = "done"
    /\ UNCHANGED <<tree, handle, corrupt, records, mappings, result, finalised,
                   output>>

Next ==
    \/ ParseInput
    \/ RenameRecord
    \/ RenameRaises
    \/ OpenOutput
    \/ PrintLine
    \/ CloseOutput
Spec == Init /\ [][Next]_vars

\* validation of a Record does not fail: it is complete, the values of its
\* mapping are well-formed and every association it refers to is mapped
Validates(rec) ==
    /\ Complete(rec)
    /\ ValuesGood(MappingOf(rec.protein))
    /\ Unmapped(rec, MappingOf(rec.protein)) = {}
\* the Record that line p of the output belongs to
OwnerOf(p) ==
    CHOOSE r \in 1..Len(finalised) :
        /\ Len(write(Take(finalised, r - 1))) < p
        /\ p <= Len(write(Take(finalised, r)))

\* C8: no line of the output belongs to a Record whose validation fails (a
\* hole, an association that is not in its mapping, a malformed mapping).
NoOutputForFailing ==
    \A p \in 1..Len(output) : Validates(records[OwnerOf(p)])
NoOutputForFailingWitness ==
    /\ pc = "raised"
    /\ Len(records) = 2
    /\ Len(finalised) = 1
    /\ Validates(records[1])
    /\ ~Validates(records[2])
    /\ output = <<>>
====
